---------------------------- MODULE Spec2Model ----------------------------
(***************************************************************************)
(* Word-level model of the segregated-list allocator in mm.c.              *)
(*                                                                         *)
(* The arena is an array of 8-byte words.  Every helper of mm.c is an      *)
(* operator from a machine state h (a record) to a machine state; a C      *)
(* function's return value is left in h.rv.  Where a C function reads      *)
(* several values from an intermediate state, its remaining statements are *)
(* a second operator that takes that state as a parameter (named after the *)
(* function, with a suffix).  An access outside the arena or through a     *)
(* misaligned pointer, an overlapping memcpy and a loop that does not end  *)
(* are undefined or non-terminating in C: they set h.fault, and a faulted  *)
(* machine takes no further step.                                          *)
(*                                                                         *)
(* Words that nothing owns (fresh words from mem_sbrk, the interior of a   *)
(* free block, the padding of an allocated one) hold POISON, a value no    *)
(* store of the program produces; the program reading such a word is a     *)
(* read of indeterminate data and sets h.fault as well.                    *)
(*                                                                         *)
(* size_t / word_t are 64 bits wide in the source.  TLC's integers are 32  *)
(* bits wide, so the word is scaled to WORD_BITS bits; all size arithmetic *)
(* is done modulo 2^WORD_BITS exactly where the C code does it modulo 2^64.*)
(*                                                                         *)
(* Two clients drive the allocator.  The client of Spec fills every region *)
(* it is handed and stops once it holds a pointer that is not an allocated *)
(* block of the size it asked for.  The client of SpecHeedless stores      *)
(* nothing and goes on calling for MaxCalls calls whatever it is handed.   *)
(* The claims of the specification are stated at the end of the module.    *)
(***************************************************************************)
EXTENDS Integers, Sequences, FiniteSets, TLC

VARIABLES
    mem,         \* the arena: word index -> word value
    mem_brk,     \* size of the arena in bytes (memlib's break - heap base)
    heap_start,  \* static block_t *heap_start
    mini_root,   \* static mini_block_t *mini_root
    seglist,     \* static block_t *seglist[BUCKET_COUNT]
    fault,       \* "none", or how the last call went wrong: "segv" (access
                 \* outside the arena), "uninit" (read of a word without
                 \* owner), "abort" (failed assert), "hang" (endless loop)
    live,        \* client's view: payload pointer -> requested size
    calls        \* calls made so far by the client that does not look at
                 \* what it is handed (Heedless below)

vars == <<mem, mem_brk, heap_start, mini_root, seglist, fault, live, calls>>

---------------------------------------------------------------------------
(* Bounds of the model *)

\* width of the scaled machine word
WORD_BITS == 15
\* largest arena the growth primitive ever grants, in bytes
MaxHeap == 1040
\* largest number of allocations the client holds at once
MaxLive == 2
\* largest number of calls of the client that does not look at what it is
\* handed
MaxCalls == 5
\* largest number of free blocks of the heaps on which find_fit is examined
MaxEntries == 4

---------------------------------------------------------------------------
(* Basic constants, mm.c lines 68-78 *)

wsize == 8
dsize == 2 * wsize
min_block_size == dsize
chunksize == 512
BUCKET_COUNT == 14
MINI_BLOCK_SIZE == 16
NULL == 0

\* number of values of a machine word; SIZE_MAX is WordMod - 1
WordMod == 2 ^ WORD_BITS

\* unsigned arithmetic of size_t
UAdd(a, b) == (a + b) % WordMod
USub(a, b) == (a - b + WordMod) % WordMod
UMul(a, b) == (a * b) % WordMod

\* first address of the arena (memlib's mem_heap_lo), 16-byte aligned
mem_heap_lo == 32

max(x, y) == IF x > y THEN x ELSE y

round_up(size, n) == UMul(n, UAdd(size, n - 1) \div n)

(* pack: word = size, then |= the mask of every flag that is set *)
OrBit(w, on, b) == IF on /\ (w \div b) % 2 = 0 THEN w + b ELSE w

pack(size, mpalloc, palloc, alloc) ==
    OrBit(OrBit(OrBit(size, alloc, 1), palloc, 2), mpalloc, 4)

extract_size(word) == word - (word % 16)
extract_alloc(word) == word % 2 = 1
extract_palloc(word) == (word \div 2) % 2 = 1
extract_mpalloc(word) == (word \div 4) % 2 = 1

---------------------------------------------------------------------------
(* The machine state and raw memory access *)

Machine ==
    [mem |-> mem, brk |-> mem_brk, heap_start |-> heap_start,
     mini_root |-> mini_root, seglist |-> seglist, fault |-> fault,
     rv |-> NULL, cap |-> 0, ncalls |-> 0, nfail |-> 0]

\* the content of a word that has no owner
POISON == WordMod

\* an address the program may dereference: word-aligned and inside the arena
InArena(h, a) ==
    /\ a % wsize = 0
    /\ a >= mem_heap_lo
    /\ a + wsize <= mem_heap_lo + h.brk

WordIx(a) == (a - mem_heap_lo) \div wsize

Trap(h) == IF h.fault = "none" THEN [h EXCEPT !.fault = "segv"] ELSE h
Hang(h) == IF h.fault = "none" THEN [h EXCEPT !.fault = "hang"] ELSE h
Uninit(h) == IF h.fault = "none" THEN [h EXCEPT !.fault = "uninit"] ELSE h
Ret(h, v) == [h EXCEPT !.rv = v]

\* value of the word at address a (0 when the access is undefined: every
\* caller traps on such an address before it uses the value)
Load(h, a) == IF InArena(h, a) THEN h.mem[WordIx(a)] ELSE 0

Store(h, a, v) ==
    IF h.fault # "none" THEN h
    ELSE IF ~InArena(h, a) THEN Trap(h)
    ELSE [h EXCEPT !.mem[WordIx(a)] = v]

\* memlib: the heap-growth primitive.  h.cap is the largest arena size the
\* environment grants during the current call; new words have no owner.
mem_sbrk(h, incr) ==
    LET h1 == [h EXCEPT !.ncalls = @ + 1] IN
    IF incr >= WordMod \div 2 \/ h.brk + incr > h.cap
    THEN [h1 EXCEPT !.rv = WordMod - 1, !.nfail = @ + 1]
    ELSE LET n0 == h.brk \div wsize
             n1 == (h.brk + incr) \div wsize
         IN  [h1 EXCEPT !.mem = [i \in 0 .. n1 - 1 |->
                                    IF i < n0 THEN h.mem[i] ELSE POISON],
                        !.brk = h.brk + incr,
                        !.rv = mem_heap_lo + h.brk]

mem_heap_hi(h) == mem_heap_lo + h.brk - 1


---------------------------------------------------------------------------
(* Block metadata and boundary navigation, mm.c lines 137-262 *)

\* the reads of the words at the addresses in as: a trap unless every one
\* is inside the arena, a read of indeterminate data if one holds POISON
Chk(h, as) ==
    IF \A a \in as : InArena(h, a) /\ h.mem[WordIx(a)] # POISON THEN h
    ELSE IF \E a \in as : ~InArena(h, a) THEN Trap(h)
    ELSE Uninit(h)

\* a failed assert() aborts the process
Abort(h) == IF h.fault = "none" THEN [h EXCEPT !.fault = "abort"] ELSE h

get_size(h, block) == extract_size(Load(h, block))
get_alloc(h, block) == extract_alloc(Load(h, block))
get_palloc(h, block) == extract_palloc(Load(h, block))
get_mpalloc(h, block) == extract_mpalloc(Load(h, block))

payload_to_header(bp) == USub(bp, wsize)
header_to_payload(block) == UAdd(block, wsize)

header_to_footer(h, block) ==
    USub(UAdd(UAdd(block, wsize), get_size(h, block)), dsize)

footer_to_header(h, footer) ==
    USub(UAdd(footer, wsize), extract_size(Load(h, footer)))

get_payload_size(h, block) == USub(get_size(h, block), wsize)

find_next(h, block) == UAdd(block, get_size(h, block))

find_prev_footer(block) == USub(block, wsize)

find_prev(h, block, mpalloc) ==
    IF mpalloc THEN USub(block, MINI_BLOCK_SIZE)
    ELSE LET footerp == find_prev_footer(block) IN
         IF extract_size(Load(h, footerp)) = 0 THEN NULL
         ELSE footer_to_header(h, footerp)

write_epilogue(h, block, mpalloc, palloc) ==
    Store(h, block, pack(0, mpalloc, palloc, TRUE))

isEpilogue(h, block) ==
    /\ block = USub(mem_heap_hi(h), 7)
    /\ get_alloc(h, block)
    /\ get_size(h, block) = 0

isMiniBlock(h, block) == get_size(h, block) = MINI_BLOCK_SIZE

isMiniSize(size) == size = MINI_BLOCK_SIZE

\* the stores of write_block, word being the packed header
write_block_words(h, block, size, alloc, word) ==
    IF isMiniSize(size) \/ alloc THEN Store(h, block, word)
    ELSE Store(Store(h, block, word),
               header_to_footer(Store(h, block, word), block), word)

write_block(h, block, size, mpalloc, palloc, alloc) ==
    write_block_words(h, block, size, alloc, pack(size, mpalloc, palloc, alloc))

---------------------------------------------------------------------------
(* Segregated free lists, mm.c lines 285-369 *)

\* the link fields of a free block
NextField(block) == UAdd(block, wsize)
PrevField(block) == UAdd(block, 2 * wsize)

SetSeg(h, idx, v) ==
    IF h.fault # "none" THEN h ELSE [h EXCEPT !.seglist[idx] = v]

SetMiniRoot(h, v) ==
    IF h.fault # "none" THEN h ELSE [h EXCEPT !.mini_root = v]

explicit_insert_block(h, block, idx) ==
    LET h0 == Chk(h, {block}) IN
    IF isMiniBlock(h, block) THEN Abort(h0)
    ELSE IF h.seglist[idx] = NULL
    THEN Store(Store(SetSeg(h0, idx, block), NextField(block), NULL),
               PrevField(block), NULL)
    ELSE LET h1 == Store(h0, PrevField(h.seglist[idx]), block)
             h2 == Store(h1, NextField(block), h.seglist[idx])
             h3 == Store(h2, PrevField(block), NULL)
         IN  SetSeg(h3, idx, block)

explicit_remove_block(h, block, idx) ==
    LET h0 == Chk(h, {block, NextField(block), PrevField(block)})
        prev_free_block == Load(h, PrevField(block))
        next_free_block == Load(h, NextField(block))
    IN
    IF isMiniBlock(h, block) THEN Abort(h0)
    ELSE IF prev_free_block = NULL /\ next_free_block = NULL
    THEN SetSeg(h0, idx, NULL)
    ELSE IF prev_free_block = NULL /\ next_free_block # NULL
    THEN SetSeg(Store(h0, PrevField(next_free_block), NULL),
                idx, next_free_block)
    ELSE IF prev_free_block # NULL /\ next_free_block = NULL
    THEN Store(h0, NextField(prev_free_block), NULL)
    ELSE Store(Store(h0, NextField(prev_free_block), next_free_block),
               PrevField(next_free_block), prev_free_block)

seglist_init(h) == [h EXCEPT !.seglist = [idx \in 0 .. BUCKET_COUNT - 1 |-> NULL]]

home_address(size) ==
    IF size = 32 THEN 0
    ELSE IF 33 <= size /\ size <= 64 THEN 1
    ELSE IF 65 <= size /\ size <= 85 THEN 2
    ELSE IF 86 <= size /\ size <= 112 THEN 3
    ELSE IF 113 <= size /\ size <= 128 THEN 4
    ELSE IF 129 <= size /\ size <= 160 THEN 5
    ELSE IF 161 <= size /\ size <= 200 THEN 6
    ELSE IF 201 <= size /\ size <= 256 THEN 7
    ELSE IF 257 <= size /\ size <= 512 THEN 8
    ELSE IF 513 <= size /\ size <= 1024 THEN 9
    ELSE IF 1025 <= size /\ size <= 2048 THEN 10
    ELSE IF 2049 <= size /\ size <= 4096 THEN 11
    ELSE IF 4097 <= size /\ size <= 8192 THEN 12
    ELSE 13

---------------------------------------------------------------------------
(* Flag propagation and the mini list, mm.c lines 371-439 *)

update_next_palloc(h, block) ==
    LET alloc == get_alloc(h, block)
        next == find_next(h, block)
        next_size == get_size(h, next)
        next_alloc == get_alloc(h, next)
        next_mpalloc == get_mpalloc(h, next)
        h1 == Chk(h, {block, next})
    IN  IF isEpilogue(h, next)
        THEN write_epilogue(h1, next, next_mpalloc, alloc)
        ELSE write_block(h1, next, next_size, next_mpalloc, alloc, next_alloc)

update_next_mpalloc(h, block) ==
    LET new_next_mpalloc == isMiniBlock(h, block)
        next == find_next(h, block)
        next_size == get_size(h, next)
        next_alloc == get_alloc(h, next)
        next_palloc == get_palloc(h, next)
        h1 == Chk(h, {block, next})
    IN  IF isEpilogue(h, next)
        THEN write_epilogue(h1, next, new_next_mpalloc, next_palloc)
        ELSE write_block(h1, next, next_size, new_next_mpalloc, next_palloc,
                         next_alloc)

insert_mini_block(h, mini_block) ==
    LET h0 == Chk(h, {mini_block})
        h1 == IF ~isMiniBlock(h, mini_block) THEN Abort(h0)
              ELSE IF h.mini_root = NULL
              THEN Store(SetMiniRoot(h0, mini_block), NextField(mini_block), NULL)
              ELSE SetMiniRoot(Store(h0, NextField(mini_block), h.mini_root),
                               mini_block)
    IN  update_next_mpalloc(update_next_palloc(h1, mini_block), mini_block)

\* the while loop of remove_mini_block; rv = 1 when the loop returned from
\* the function, rv = 0 when it ran off the end of the list
RECURSIVE remove_mini_scan(_, _, _, _)
remove_mini_scan(h, mini_block, cur_mini_block, fuel) ==
    IF cur_mini_block = NULL THEN Ret(h, 0)
    ELSE IF fuel = 0 THEN Hang(h)
    ELSE IF Chk(h, {NextField(cur_mini_block)}).fault # "none"
    THEN Chk(h, {NextField(cur_mini_block)})
    ELSE IF Load(h, NextField(cur_mini_block)) = mini_block
    THEN Ret(Store(Store(Chk(h, {NextField(mini_block)}),
                         NextField(cur_mini_block),
                         Load(h, NextField(mini_block))),
                   NextField(mini_block), NULL), 1)
    ELSE remove_mini_scan(h, mini_block, Load(h, NextField(cur_mini_block)),
                          fuel - 1)

\* the two flag updates that end remove_mini_block, skipped when the loop
\* returned from the function
remove_mini_updates(h, mini_block) ==
    IF h.fault # "none" \/ h.rv = 1 THEN h
    ELSE update_next_mpalloc(update_next_palloc(h, mini_block), mini_block)

\* remove_mini_block up to its two flag updates (lines 417-436)
remove_mini_unlink(h, mini_block) ==
    IF h.mini_root = mini_block
    THEN Ret(Store(SetMiniRoot(Chk(h, {NextField(mini_block)}),
                               Load(h, NextField(mini_block))),
                   NextField(mini_block), NULL), 0)
    ELSE remove_mini_scan(h, mini_block, h.mini_root, h.brk \div wsize + 1)

remove_mini_block(h, mini_block) ==
    IF h.fault # "none" THEN h
    ELSE IF ~isMiniBlock(h, mini_block) THEN Abort(h)
    ELSE IF h.mini_root = NULL THEN h
    ELSE remove_mini_updates(remove_mini_unlink(h, mini_block), mini_block)

---------------------------------------------------------------------------
(* Fit search, mm.c lines 447-491 *)

\* One test of the inner loop's condition, then one pass through its body.
\* i is the bucket, cur_block the list cursor; fuel bounds the entries
\* visited in one bucket (a list with more entries than the arena has
\* words is cyclic, and the C loop never ends).
RECURSIVE find_fit_scan(_, _, _, _, _, _, _, _, _)
find_fit_scan(h, asize, i, cur_block, best_block, best_gap, count_switch, counter, fuel) ==
    IF i >= BUCKET_COUNT THEN Ret(h, best_block)
    ELSE IF cur_block # NULL /\ Chk(h, {cur_block}).fault # "none"
    THEN Chk(h, {cur_block})
    ELSE IF cur_block = NULL \/ get_size(h, cur_block) = 0
    THEN IF best_block # NULL THEN Ret(h, best_block)
         ELSE IF i + 1 < BUCKET_COUNT
         THEN find_fit_scan(h, asize, i + 1, h.seglist[i + 1], best_block,
                            best_gap, count_switch, counter,
                            h.brk \div wsize + 1)
         ELSE Ret(h, best_block)
    ELSE IF fuel = 0 THEN Hang(h)
    ELSE LET fits == asize <= get_size(h, cur_block)
             gap == USub(get_size(h, cur_block), asize)
             take == fits /\ (best_block = NULL \/ gap < best_gap)
             nbest == IF take THEN cur_block ELSE best_block
             ngap == IF take THEN gap ELSE best_gap
             nswitch == count_switch \/ (fits /\ best_block = NULL)
             ncounter == IF nswitch THEN counter - 1 ELSE counter
         IN  IF nswitch /\ ncounter = 0 THEN Ret(h, nbest)
             ELSE IF Chk(h, {NextField(cur_block)}).fault # "none"
             THEN Chk(h, {NextField(cur_block)})
             ELSE find_fit_scan(h, asize, i, Load(h, NextField(cur_block)),
                                nbest, ngap, nswitch, ncounter, fuel - 1)

find_fit(h, asize, idx) ==
    IF h.fault # "none" THEN h
    ELSE find_fit_scan(h, asize, idx, h.seglist[idx], NULL, 0, FALSE, 3,
                       h.brk \div wsize + 1)

---------------------------------------------------------------------------
(* Insert / remove dispatch and coalescing, mm.c lines 498-575 *)

insertVagueBlock(h, block) ==
    IF isMiniBlock(h, block) THEN insert_mini_block(Chk(h, {block}), block)
    ELSE explicit_insert_block(Chk(h, {block}), block,
                               home_address(get_size(h, block)))

removeVagueBlock(h, block) ==
    IF isMiniBlock(h, block) THEN remove_mini_block(Chk(h, {block}), block)
    ELSE explicit_remove_block(Chk(h, {block}), block,
                               home_address(get_size(h, block)))

\* both prev and next are free (lines 523-539)
coalesce_both(h, block, next, prev) ==
    LET prev_mpalloc == get_mpalloc(h, prev)
        prev_palloc == get_palloc(h, prev)
        newSum == UAdd(UAdd(get_size(h, prev), get_size(h, block)),
                       get_size(h, next))
        h1 == removeVagueBlock(Chk(h, {prev}), prev)
        h2 == removeVagueBlock(h1, next)
        h3 == write_block(h2, prev, newSum, prev_mpalloc, prev_palloc, FALSE)
        h4 == insertVagueBlock(h3, prev)
        h5 == update_next_palloc(h4, prev)
    IN  Ret(update_next_mpalloc(h5, prev), prev)

\* only next is free, after next has left its list (lines 544-552)
coalesce_next_merge(h, block, newSum) ==
    LET block_mpalloc == get_mpalloc(h, block)
        block_palloc == get_palloc(h, block)
        h1 == write_block(h, block, newSum, block_mpalloc, block_palloc, FALSE)
        h2 == insertVagueBlock(h1, block)
        h3 == update_next_mpalloc(h2, block)
    IN  Ret(update_next_palloc(h3, block), block)

\* only prev is free (lines 555-567)
coalesce_prev(h, block, prev) ==
    LET prev_mpalloc == get_mpalloc(h, prev)
        prev_palloc == get_palloc(h, prev)
        newSum == UAdd(get_size(h, prev), get_size(h, block))
        h1 == removeVagueBlock(Chk(h, {prev}), prev)
        h2 == write_block(h1, prev, newSum, prev_mpalloc, prev_palloc, FALSE)
        h3 == insertVagueBlock(h2, prev)
        h4 == update_next_palloc(h3, prev)
    IN  Ret(update_next_mpalloc(h4, prev), prev)

\* a coalesce_block that never merges
coalesce_never(h, block) ==
    Ret(update_next_mpalloc(
            update_next_palloc(insertVagueBlock(Chk(h, {block}), block), block),
            block),
        block)

coalesce_block(h, block) ==
    LET next == find_next(h, block)
        prev_allocated == get_palloc(h, block)
        next_allocated == get_alloc(h, next)
        mpalloc == get_mpalloc(h, block)
        h1 == Chk(h, {block, next})
        \* find_prev reads the footer below block unless mpalloc is set
        hp == IF mpalloc THEN h1 ELSE Chk(h1, {find_prev_footer(block)})
    IN
    IF ~prev_allocated /\ ~next_allocated
    THEN coalesce_both(hp, block, next, find_prev(h, block, mpalloc))
    ELSE IF ~next_allocated /\ prev_allocated
    THEN coalesce_next_merge(removeVagueBlock(h1, next), block,
                             UAdd(get_size(h, block), get_size(h, next)))
    ELSE IF ~prev_allocated /\ next_allocated
    THEN coalesce_prev(hp, block, find_prev(h, block, mpalloc))
    ELSE Ret(update_next_mpalloc(
                 update_next_palloc(insertVagueBlock(h1, block), block), block),
             block)

---------------------------------------------------------------------------
(* Heap growth and initialisation, mm.c lines 580-618 *)

\* (void *)-1, the failure value of mem_sbrk
SBRK_FAILED == WordMod - 1

\* an extend_heap_block that does not merge the new block
extend_heap_block_unmerged(h, size, mpalloc, palloc) ==
    LET bp == h.rv
        block == payload_to_header(bp)
        h1 == write_block(h, block, size, mpalloc, palloc, FALSE)
        block_next == find_next(h1, block)
        h2 == write_epilogue(Chk(h1, {block}), block_next,
                             isMiniBlock(h1, block), FALSE)
    IN  IF bp = SBRK_FAILED THEN Ret(h, NULL)
        ELSE coalesce_never(h2, block)

\* extend_heap once mem_sbrk has answered (lines 583-595)
extend_heap_block(h, size, mpalloc, palloc) ==
    LET bp == h.rv
        block == payload_to_header(bp)
        h1 == write_block(h, block, size, mpalloc, palloc, FALSE)
        block_next == find_next(h1, block)
        h2 == write_epilogue(Chk(h1, {block}), block_next,
                             isMiniBlock(h1, block), FALSE)
    IN  IF bp = SBRK_FAILED THEN Ret(h, NULL)
        ELSE coalesce_block(h2, block)

extend_heap(h, size, mpalloc, palloc) ==
    IF h.fault # "none" THEN h
    ELSE extend_heap_block(mem_sbrk(h, round_up(size, dsize)),
                           round_up(size, dsize), mpalloc, palloc)

\* mm_init from the test of extend_heap's result (lines 613-617);
\* rv = 1 for true, 0 for false
mm_init_result(h) ==
    IF h.fault = "none" /\ h.rv = NULL THEN Ret(h, 0) ELSE Ret(h, 1)

\* an mm_init whose first prologue word is not marked allocated
mm_init_prologue_free(h) ==
    LET h1 == mem_sbrk(SetMiniRoot(seglist_init(h), NULL), 2 * wsize)
        start == h1.rv
        h2 == Store(h1, start, pack(0, FALSE, TRUE, FALSE))
        h3 == Store(h2, UAdd(start, wsize), pack(0, FALSE, TRUE, TRUE))
        h4 == [h3 EXCEPT !.heap_start = UAdd(start, wsize)]
    IN  IF h.fault # "none" THEN h
        ELSE IF start = SBRK_FAILED THEN Ret(h1, 0)
        ELSE mm_init_result(extend_heap(h4, chunksize, FALSE, TRUE))

mm_init(h) ==
    LET h1 == mem_sbrk(SetMiniRoot(seglist_init(h), NULL), 2 * wsize)
        start == h1.rv
        h2 == Store(h1, start, pack(0, FALSE, TRUE, TRUE))
        h3 == Store(h2, UAdd(start, wsize), pack(0, FALSE, TRUE, TRUE))
        h4 == [h3 EXCEPT !.heap_start = UAdd(start, wsize)]
    IN  IF h.fault # "none" THEN h
        ELSE IF start = SBRK_FAILED THEN Ret(h1, 0)
        ELSE mm_init_result(extend_heap(h4, chunksize, FALSE, TRUE))

---------------------------------------------------------------------------
(* Splitting and the public operations, mm.c lines 620-803 *)

\* the remainder of a split, after block's header holds asize (lines 638-646)
split_block_remainder(h, block, rest) ==
    LET block_next == find_next(h, block)
        h1 == write_block(Chk(h, {block}), block_next, rest,
                          isMiniBlock(h, block), TRUE, FALSE)
        h2 == insertVagueBlock(h1, block_next)
        h3 == update_next_mpalloc(h2, block_next)
    IN  update_next_palloc(h3, block_next)

\* split_block once block has left its list (lines 636-654)
split_block_write(h, block, asize, block_size, mpalloc, palloc) ==
    IF USub(block_size, asize) >= min_block_size
    THEN split_block_remainder(
             write_block(h, block, asize, mpalloc, palloc, TRUE),
             block, USub(block_size, asize))
    ELSE update_next_mpalloc(
             update_next_palloc(
                 write_block(h, block, block_size, mpalloc, palloc, TRUE),
                 block),
             block)

\* a split_block_unlinked that leaves the block in its list
split_block_linked(h, block) ==
    Chk(h, {block})

\* split_block up to the removal of block from its list (lines 626-635,
\* 649-651)
split_block_unlinked(h, block) ==
    removeVagueBlock(Chk(h, {block}), block)

split_block(h, block, asize) ==
    split_block_write(split_block_unlinked(h, block), block, asize,
                      get_size(h, block), get_mpalloc(h, block),
                      get_palloc(h, block))

\* the fit search of malloc (lines 681-690); rv is the block found or NULL
malloc_search(h, asize) ==
    IF asize = MINI_BLOCK_SIZE /\ h.mini_root # NULL THEN Ret(h, h.mini_root)
    ELSE find_fit(h, asize,
                  IF asize = MINI_BLOCK_SIZE THEN 0 ELSE home_address(asize))

\* a malloc_extend that asks the growth primitive a second time before it
\* extends the heap
malloc_extend_retry(h, asize) ==
    LET epilogue == USub(mem_heap_hi(h), 7)
        old_mpalloc == get_mpalloc(h, epilogue)
        old_palloc == get_palloc(h, epilogue)
        extendsize == max(asize, chunksize)
    IN  IF h.fault # "none" \/ h.rv # NULL THEN h
        ELSE extend_heap(Ret(mem_sbrk(Chk(h, {epilogue}), 0), NULL),
                         extendsize, old_mpalloc, old_palloc)

\* heap growth when the search found nothing (lines 692-702)
malloc_extend(h, asize) ==
    LET epilogue == USub(mem_heap_hi(h), 7)
        old_mpalloc == get_mpalloc(h, epilogue)
        old_palloc == get_palloc(h, epilogue)
        extendsize == max(asize, chunksize)
    IN  IF h.fault # "none" \/ h.rv # NULL THEN h
        ELSE extend_heap(Chk(h, {epilogue}), extendsize, old_mpalloc, old_palloc)

\* the chosen block, h.rv, marked allocated (lines 705-708)
malloc_mark(h) ==
    LET block == h.rv
        block_size == get_size(h, block)
        mpalloc == get_mpalloc(h, block)
        palloc == get_palloc(h, block)
    IN  write_block(Chk(h, {block}), block, block_size, mpalloc, palloc, TRUE)

\* allocation from the chosen block (lines 699-715)
malloc_place(h, asize) ==
    IF h.fault # "none" \/ h.rv = NULL THEN h
    ELSE Ret(split_block(malloc_mark(h), h.rv, asize),
             header_to_payload(h.rv))

\* a malloc that serves size 0 like any other size
malloc_sized_zero_served(h, size) ==
    LET asize == round_up(UAdd(size, wsize), dsize) IN
    IF h.fault # "none" THEN h
    ELSE malloc_place(malloc_extend(malloc_search(h, asize), asize), asize)

\* malloc after the lazy initialisation (lines 672-715)
malloc_sized(h, size) ==
    LET asize == round_up(UAdd(size, wsize), dsize) IN
    IF h.fault # "none" THEN h
    ELSE IF size = 0 THEN Ret(h, NULL)
    ELSE malloc_place(malloc_extend(malloc_search(h, asize), asize), asize)

malloc(h, size) ==
    malloc_sized(IF h.heap_start = NULL THEN mm_init(h) ELSE h, size)

\* the two flag updates that end free (lines 737-738)
free_updates(h) ==
    update_next_palloc(update_next_mpalloc(h, h.rv), h.rv)

free(h, bp) ==
    LET block == payload_to_header(bp)
        size == get_size(h, block)
        mpalloc == get_mpalloc(h, block)
        palloc == get_palloc(h, block)
        h1 == write_block(Chk(h, {block}), block, size, mpalloc, palloc, FALSE)
    IN  IF h.fault # "none" \/ bp = NULL THEN h
        ELSE free_updates(coalesce_block(h1, block))

\* the low r bytes of a word, r in 0..7 (little-endian); a model word is
\* narrower than two bytes, so its bytes 2..7 are zero
LowBytes(w, r) == IF r = 0 THEN 0 ELSE IF r = 1 THEN w % 256 ELSE w

\* the words a transfer of n bytes at p touches
Span(p, n) == {UAdd(p, wsize * k) : k \in 0 .. ((n + wsize - 1) \div wsize) - 1}

memcpy(h, dst, src, n) ==
    LET q == n \div wsize
        r == n % wsize
        delta == WordIx(src) - WordIx(dst)
        d0 == WordIx(dst)
    IN
    IF h.fault # "none" \/ n = 0 THEN h
    ELSE IF \E a \in Span(dst, n) \cup Span(src, n) : ~InArena(h, a) THEN Trap(h)
    ELSE IF Span(dst, n) \cap Span(src, n) # {} THEN Trap(h)
    ELSE [h EXCEPT !.mem = [i \in DOMAIN h.mem |->
            IF d0 <= i /\ i < d0 + q THEN h.mem[i + delta]
            ELSE IF i = d0 + q /\ r > 0
            THEN (h.mem[i] - LowBytes(h.mem[i], r)) + LowBytes(h.mem[i + delta], r)
            ELSE h.mem[i]]]

memset0(h, dst, n) ==
    LET q == n \div wsize
        r == n % wsize
        d0 == WordIx(dst)
    IN
    IF h.fault # "none" \/ n = 0 THEN h
    ELSE IF \E a \in Span(dst, n) : ~InArena(h, a) THEN Trap(h)
    ELSE [h EXCEPT !.mem = [i \in DOMAIN h.mem |->
            IF d0 <= i /\ i < d0 + q THEN 0
            ELSE IF i = d0 + q /\ r > 0 THEN h.mem[i] - LowBytes(h.mem[i], r)
            ELSE h.mem[i]]]

\* realloc once malloc has answered (lines 757-778)
realloc_copy(h, ptr, size) ==
    LET newptr == h.rv
        block == payload_to_header(ptr)
        copysize0 == get_payload_size(h, block)
        copysize == IF size < copysize0 THEN size ELSE copysize0
        h1 == memcpy(Chk(h, {block}), newptr, ptr, copysize)
    IN  IF ptr = NULL \/ h.fault # "none" THEN h
        ELSE IF newptr = NULL THEN Ret(h, NULL)
        ELSE Ret(free(h1, ptr), newptr)

\* a realloc that tests ptr before size
realloc_ptr_first(h, ptr, size) ==
    IF ptr = NULL THEN malloc(h, size)
    ELSE IF size = 0 THEN Ret(free(h, ptr), NULL)
    ELSE realloc_copy(malloc(h, size), ptr, size)

realloc(h, ptr, size) ==
    IF size = 0 THEN Ret(free(h, ptr), NULL)
    ELSE realloc_copy(malloc(h, size), ptr, size)

\* calloc once malloc has answered (lines 795-802)
calloc_clear(h, asize) ==
    IF h.fault # "none" THEN h
    ELSE IF h.rv = NULL THEN Ret(h, NULL)
    ELSE Ret(memset0(h, h.rv, asize), h.rv)

calloc(h, elements, size) ==
    IF elements = 0 THEN Ret(h, NULL)
    ELSE IF UMul(elements, size) \div elements # size THEN Ret(h, NULL)
    ELSE calloc_clear(malloc(h, UMul(elements, size)), UMul(elements, size))

---------------------------------------------------------------------------
(* The client: request sizes, the growth primitive's answers, the calls *)

\* sizes whose adjusted size is computed without wrap-around
PlainSizes == {8, 24, 500}
\* sizes within 23 of SIZE_MAX: size + 8 or the round-up to 16 wraps
WrapSizes == {WordMod - 1, WordMod - 16, WordMod - 24}
ReqSizes == {0} \cup PlainSizes \cup WrapSizes

\* what the client stores in word k of an allocation: distinct even
\* values, which read as the header of a free block
Token(k) == 4660 + 2 * k

\* the arena limits the environment may impose during one call: no growth,
\* room for the two prologue words only, or the whole arena
Caps == {c \in {mem_brk, 2 * wsize, MaxHeap} : c >= mem_brk}

\* calloc's argument pairs: zero elements, one element, a product that
\* fits, a product that overflows the word
CallocArgs == {<<0, 8>>, <<1, 8>>, <<2, 12>>, <<2, WordMod \div 2>>}

Env(cap) == [Machine EXCEPT !.cap = cap]

Drop(f, p) == [q \in DOMAIN f \ {p} |-> f[q]]
Put(f, p, n) == [q \in DOMAIN f \cup {p} |-> IF q = p THEN n ELSE f[q]]

\* the words of the n-byte region at p, as indices into mem
Region(p, n) == {WordIx(p) + k : k \in 0 .. ((n + wsize - 1) \div wsize) - 1}

\* The client holding the regions lv was handed one that is not an
\* allocated block of at least the size it asked for.  Such a client is
\* not followed further.
BetrayedIn(h, lv) ==
    \E p \in DOMAIN lv :
        \/ ~InArena(h, payload_to_header(p))
        \/ ~get_alloc(h, payload_to_header(p))
        \/ get_payload_size(h, payload_to_header(p)) < lv[p]

Betrayed == BetrayedIn(Machine, live)

\* the blocks from b onwards, by repeated find_next, up to and including
\* the first word that holds size 0
RECURSIVE HeapWalk(_, _, _)
HeapWalk(h, b, fuel) ==
    IF fuel = 0 \/ ~InArena(h, b) \/ Load(h, b) = POISON \/ get_size(h, b) = 0
    THEN <<b>>
    ELSE <<b>> \o HeapWalk(h, find_next(h, b), fuel - 1)

Blocks(h) == HeapWalk(h, h.heap_start, h.brk \div wsize)

\* the walk bs ends on the epilogue
EndsOnEpilogue(h, bs) == isEpilogue(h, bs[Len(bs)])

Tiled(h) == EndsOnEpilogue(h, Blocks(h))

\* the links and the footer of a free block, as indices into mem
FreeWords(h, block) ==
    IF get_alloc(h, block) THEN {}
    ELSE IF isMiniBlock(h, block) THEN {WordIx(NextField(block))}
    ELSE {WordIx(NextField(block)), WordIx(PrevField(block)),
          WordIx(header_to_footer(h, block))}

\* the words the allocator owns: the first prologue word, every header on
\* the walk bs, the links and footers of the free blocks
Metadata(h, bs) ==
    {0} \cup {WordIx(bs[i]) : i \in 1 .. Len(bs)}
        \cup UNION {FreeWords(h, bs[i]) : i \in 1 .. Len(bs)}

\* the regions lv, each word k of a region holding Token(k)
Contents(lv) ==
    [i \in UNION {Region(p, lv[p]) : p \in DOMAIN lv} |->
        Token(i - WordIx(CHOOSE p \in DOMAIN lv : i \in Region(p, lv[p])))]

\* the arena m after the client has filled its regions; a word that is
\* neither the client's nor the allocator's holds POISON
Arena(m, meta, data) ==
    [i \in DOMAIN m |-> IF i \in DOMAIN data THEN data[i]
                        ELSE IF i \in meta THEN m[i]
                        ELSE POISON]

SettledOn(h, lv, bs) ==
    IF ~EndsOnEpilogue(h, bs) \/ BetrayedIn(h, lv) THEN h.mem
    ELSE Arena(h.mem, Metadata(h, bs), Contents(lv))

\* the arena at the end of a call, the client left with the regions lv
Settled(h, lv) ==
    IF h.heap_start = NULL THEN h.mem ELSE SettledOn(h, lv, Blocks(h))

\* the state after a call that leaves the client with the regions lv; a
\* faulted call leaves no defined state
Commit(h, lv) ==
    IF h.fault = "none"
    THEN /\ mem' = Settled(h, lv)
         /\ mem_brk' = h.brk
         /\ heap_start' = h.heap_start
         /\ mini_root' = h.mini_root
         /\ seglist' = h.seglist
         /\ fault' = "none"
         /\ live' = lv
         /\ UNCHANGED calls
    ELSE /\ fault' = h.fault
         /\ UNCHANGED <<mem, mem_brk, heap_start, mini_root, seglist, live,
                        calls>>

\* the client calls the allocator
Running == fault = "none" /\ ~Betrayed

Init ==
    /\ mem = [i \in {} |-> 0]
    /\ mem_brk = 0
    /\ heap_start = NULL
    /\ mini_root = NULL
    /\ seglist = [idx \in 0 .. BUCKET_COUNT - 1 |-> NULL]
    /\ fault = "none"
    /\ live = [p \in {} |-> 0]
    /\ calls = 0

InitReturn(h) ==
    Commit(h, live)

\* the driver's explicit mm_init() on a fresh arena
InitCall ==
    /\ Running /\ mem_brk = 0 /\ heap_start = NULL
    /\ \E cap \in Caps : InitReturn(mm_init(Env(cap)))

MallocReturn(h, size) ==
    Commit(h, IF h.rv # NULL THEN Put(live, h.rv, size) ELSE live)

MallocCall ==
    /\ Running /\ Cardinality(DOMAIN live) < MaxLive
    /\ \E size \in ReqSizes, cap \in Caps :
         MallocReturn(malloc(Env(cap), size), size)

FreeReturn(h, bp) ==
    Commit(h, Drop(live, bp))

FreeCall ==
    /\ Running
    /\ \E bp \in DOMAIN live \cup {NULL} : FreeReturn(free(Env(mem_brk), bp), bp)

ReallocReturn(h, ptr, size) ==
    Commit(h, IF size = 0 THEN Drop(live, ptr)
                 ELSE IF h.rv = NULL THEN live
                 ELSE Put(Drop(live, ptr), h.rv, size))

ReallocCall ==
    /\ Running
    /\ \E ptr \in DOMAIN live \cup {NULL}, size \in ReqSizes, cap \in Caps :
         /\ ptr = NULL => Cardinality(DOMAIN live) < MaxLive
         /\ ReallocReturn(realloc(Env(cap), ptr, size), ptr, size)

CallocReturn(h, elements, size) ==
    Commit(h, IF h.rv # NULL THEN Put(live, h.rv, UMul(elements, size))
                 ELSE live)

CallocCall ==
    /\ Running /\ Cardinality(DOMAIN live) < MaxLive
    /\ \E args \in CallocArgs, cap \in Caps :
         CallocReturn(calloc(Env(cap), args[1], args[2]), args[1], args[2])

Next ==
    \/ InitCall
    \/ MallocCall
    \/ FreeCall
    \/ ReallocCall
    \/ CallocCall

Spec == Init /\ [][Next]_vars

---------------------------------------------------------------------------
(* A second client, which does not look at what it is handed: it stores    *)
(* nothing in its regions and goes on calling after a wrong answer, for    *)
(* MaxCalls calls.  It starts on the fresh arena; its first malloc runs    *)
(* mm_init.                                                                *)

HeedlessSizes == {8, 24, WordMod - 16}

HeedlessCommit(h, lv) ==
    IF h.fault = "none"
    THEN /\ mem' = h.mem
         /\ mem_brk' = h.brk
         /\ heap_start' = h.heap_start
         /\ mini_root' = h.mini_root
         /\ seglist' = h.seglist
         /\ fault' = "none"
         /\ live' = lv
         /\ calls' = calls + 1
    ELSE /\ fault' = h.fault
         /\ calls' = calls + 1
         /\ UNCHANGED <<mem, mem_brk, heap_start, mini_root, seglist, live>>

HeedlessMallocReturn(h, size) ==
    HeedlessCommit(h, IF h.rv # NULL THEN Put(live, h.rv, size) ELSE live)

HeedlessMalloc ==
    /\ fault = "none" /\ calls < MaxCalls
    /\ Cardinality(DOMAIN live) < MaxLive
    /\ \E size \in HeedlessSizes :
         HeedlessMallocReturn(malloc(Env(MaxHeap), size), size)

HeedlessFreeReturn(h, bp) ==
    HeedlessCommit(h, Drop(live, bp))

HeedlessFree ==
    /\ fault = "none" /\ calls < MaxCalls
    /\ \E bp \in DOMAIN live : HeedlessFreeReturn(free(Env(mem_brk), bp), bp)

HeedlessNext ==
    \/ HeedlessMalloc
    \/ HeedlessFree

SpecHeedless == Init /\ [][HeedlessNext]_vars

---------------------------------------------------------------------------
(* The heap as the claims describe it *)

\* a heap whose initialisation succeeded: the prologue and a first chunk
Initialised == heap_start # NULL /\ mem_brk > 2 * wsize

\* the walk over the current heap; its last element is the word that ends it
Walk == Blocks(Machine)

\* the blocks of the current heap, the word that ends the walk left out
HeapBlocks == SubSeq(Walk, 1, Len(Walk) - 1)

\* the entries of one free list, followed through the next links
RECURSIVE ListWalk(_, _)
ListWalk(cur, fuel) ==
    IF cur = NULL \/ fuel = 0 \/ ~InArena(Machine, NextField(cur)) THEN <<>>
    ELSE <<cur>> \o ListWalk(Load(Machine, NextField(cur)), fuel - 1)

Bucket(idx) == ListWalk(seglist[idx], mem_brk \div wsize + 1)
MiniList == ListWalk(mini_root, mem_brk \div wsize + 1)

Count(s, x) == Cardinality({i \in 1 .. Len(s) : s[i] = x})
Elems(s) == {s[i] : i \in 1 .. Len(s)}
Ends(s) == s = <<>> \/ Load(Machine, NextField(s[Len(s)])) = NULL

IsFree(block) == ~get_alloc(Machine, block)
IsMini(block) == isMiniBlock(Machine, block)

\* the words of the usable region of the block that owns p
Usable(p) ==
    Region(p, get_payload_size(Machine, payload_to_header(p)))

\* the prologue word and the last word of the arena
Sentinels == {0, mem_brk \div wsize - 1}

\* the header, links and footer of every free block
FreeMetadata ==
    UNION {{WordIx(HeapBlocks[i])} \cup FreeWords(Machine, HeapBlocks[i]) :
              i \in {j \in 1 .. Len(HeapBlocks) : IsFree(HeapBlocks[j])}}

RegionsSafe ==
    \A p \in DOMAIN live :
        /\ InArena(Machine, payload_to_header(p))
        /\ Usable(p) \subseteq DOMAIN mem
        /\ Usable(p) \cap Sentinels = {}
        /\ Usable(p) \cap FreeMetadata = {}
        /\ \A q \in DOMAIN live \ {p} : Usable(p) \cap Usable(q) = {}

NoAdjacentFree(bs) ==
    \A i \in 1 .. Len(bs) - 1 : ~(IsFree(bs[i]) /\ IsFree(bs[i + 1]))

FlagsAccurate(bs) ==
    \A i \in 1 .. Len(bs) :
        /\ get_palloc(Machine, bs[i])
             = (IF i = 1 THEN TRUE ELSE ~IsFree(bs[i - 1]))
        /\ get_mpalloc(Machine, bs[i])
             = (IF i = 1 THEN FALSE ELSE IsMini(bs[i - 1]))

FootersMatch(bs) ==
    \A i \in 1 .. Len(bs) :
        (IsFree(bs[i]) /\ get_size(Machine, bs[i]) >= 2 * dsize)
            => /\ InArena(Machine, header_to_footer(Machine, bs[i]))
               /\ Load(Machine, header_to_footer(Machine, bs[i]))
                    = Load(Machine, bs[i])

ListsExact(bs) ==
    /\ \A i \in 1 .. Len(bs) :
          /\ Count(MiniList, bs[i])
               = (IF IsFree(bs[i]) /\ IsMini(bs[i]) THEN 1 ELSE 0)
          /\ \A idx \in 0 .. BUCKET_COUNT - 1 :
                Count(Bucket(idx), bs[i])
                  = (IF /\ IsFree(bs[i])
                        /\ ~IsMini(bs[i])
                        /\ idx = home_address(get_size(Machine, bs[i]))
                     THEN 1 ELSE 0)
    /\ Elems(MiniList) \subseteq Elems(bs)
    /\ Ends(MiniList)
    /\ \A idx \in 0 .. BUCKET_COUNT - 1 :
          Elems(Bucket(idx)) \subseteq Elems(bs) /\ Ends(Bucket(idx))

TilesArena(bs) ==
    /\ \A i \in 1 .. Len(bs) - 1 :
          get_size(Machine, bs[i]) > 0 /\ get_size(Machine, bs[i]) % dsize = 0
    /\ bs[Len(bs)] = mem_heap_lo + mem_brk - wsize
    /\ get_size(Machine, bs[Len(bs)]) = 0
    /\ get_alloc(Machine, bs[Len(bs)])

\* the n-byte region at address p of machine h equals the n bytes that the
\* current arena holds at address q
SameBytes(h, p, q, n) ==
    /\ \A a \in Span(p, n) : InArena(h, a)
    /\ \A k \in 0 .. (n \div wsize) - 1 :
          Load(h, p + wsize * k) = Load(Machine, q + wsize * k)
    /\ n % wsize # 0 =>
          LowBytes(Load(h, p + wsize * (n \div wsize)), n % wsize)
            = LowBytes(Load(Machine, q + wsize * (n \div wsize)), n % wsize)

\* some free block of the heap of h covers the header at address block
FreedIn(h, block, bs) ==
    \E i \in 1 .. Len(bs) - 1 :
        /\ ~get_alloc(h, bs[i])
        /\ bs[i] <= block /\ block < bs[i] + get_size(h, bs[i])

\* the call that ended in h left the allocator state as it was
Untouched(h) ==
    /\ h.mem = mem
    /\ h.brk = mem_brk
    /\ h.heap_start = heap_start
    /\ h.mini_root = mini_root
    /\ h.seglist = seglist

\* two calls ended in the same allocator state with the same answer
SameOutcome(h1, h2) ==
    /\ h1.fault = h2.fault
    /\ h1.rv = h2.rv
    /\ h1.mem = h2.mem
    /\ h1.brk = h2.brk
    /\ h1.heap_start = h2.heap_start
    /\ h1.mini_root = h2.mini_root
    /\ h1.seglist = h2.seglist

---------------------------------------------------------------------------
(* The claims *)

\* C1: the usable regions of the live allocations are pairwise disjoint,
\* lie inside the arena, and contain no sentinel word and no header, link
\* or footer of a free block.
LiveRegionsSafe == fault = "none" => RegionsSafe

\* what malloc(size) owes its caller when it ended in h
MallocResultOf(h, size) ==
    (h.fault = "none" /\ h.rv # NULL)
        => /\ h.rv % dsize = 0
           /\ InArena(h, payload_to_header(h.rv))
           /\ get_payload_size(h, payload_to_header(h.rv)) >= size

\* C2: for every nonzero request size, those within 23 of the largest word
\* value included, an address returned by malloc is a multiple of 16 and the
\* payload of its block holds at least size bytes.
MallocAlignedAndLargeEnough ==
    Running =>
        \A size \in ReqSizes \ {0}, cap \in Caps :
            MallocResultOf(malloc(Env(cap), size), size)

\* C3: at the end of every operation on an initialised heap no two
\* physically adjacent blocks are both free.
FreeBlocksCoalesced ==
    (fault = "none" /\ Initialised) => NoAdjacentFree(HeapBlocks)

\* C4: at the end of every operation the palloc flag of every block and of
\* the epilogue tells whether the physical predecessor is allocated (true
\* for the first block), and the mpalloc flag tells whether that
\* predecessor is a 16-byte block.
PredecessorFlagsAccurate ==
    (fault = "none" /\ Initialised) => FlagsAccurate(Walk)

\* C5: at the end of every operation the footer of every free block of 32
\* bytes or more is identical to its header.
FooterEqualsHeader ==
    (fault = "none" /\ Initialised) => FootersMatch(HeapBlocks)

\* C6: at the end of every operation a block is linked in a free list iff
\* it is free, exactly once, a free 16-byte block in the mini list only and
\* a larger free block in bucket home_address(size) only.
FreeListsExact ==
    (fault = "none" /\ Initialised) => ListsExact(HeapBlocks)

\* C7: at the end of every operation after a successful initialisation the
\* walk from the first block, stepping by the size fields, passes only
\* nonzero multiples of 16 and ends exactly on the epilogue, the last word
\* of the arena, which holds size 0 and the alloc flag.
BlocksTileArena ==
    (fault = "none" /\ Initialised) => TilesArena(Walk)

\* what a call owes its caller when it ended in h after a failed growth
GrowthFailureOf(h) ==
    h.nfail > 0
        => /\ h.fault = "none"
           /\ h.rv = NULL
           /\ Untouched(h)
           /\ h.ncalls = 1

\* C8: on an initialised heap, a malloc or a realloc (ptr not null, size
\* not zero) during which the growth primitive fails returns null, leaves
\* the arena, the lists and every block as they were, and has called the
\* growth primitive exactly once.
GrowthFailureLeavesHeap ==
    (Running /\ Initialised) =>
        \A size \in ReqSizes \ {0}, cap \in Caps :
            /\ GrowthFailureOf(malloc(Env(cap), size))
            /\ \A ptr \in DOMAIN live :
                  GrowthFailureOf(realloc(Env(cap), ptr, size))

\* C8, its case: an initialised heap with a live allocation on which a
\* malloc finds no fit and the growth primitive fails
GrowthFailureHappens ==
    /\ Running /\ Initialised /\ DOMAIN live # {}
    /\ \E size \in PlainSizes : malloc(Env(mem_brk), size).nfail = 1
    /\ \E size \in PlainSizes, ptr \in DOMAIN live :
          realloc(Env(mem_brk), ptr, size).nfail = 1

\* what realloc(ptr, size) owes its caller when it ended in h; n is the
\* payload size of the old block
ReallocResultOf(h, ptr, size, n) ==
    (h.fault = "none" /\ h.rv # NULL)
        => /\ h.rv # ptr
           /\ SameBytes(h, h.rv, ptr, IF size < n THEN size ELSE n)
           /\ FreedIn(h, payload_to_header(ptr), Blocks(h))
           /\ \A q \in DOMAIN live \ {ptr} :
                 \A i \in Region(q, live[q]) :
                     i \in DOMAIN h.mem /\ h.mem[i] = mem[i]

\* C9: a realloc of a live pointer to a nonzero size whose inner malloc
\* succeeds returns another address, at which the first min(old payload
\* size, size) bytes are those of the old payload; the old block is free
\* afterwards and every other live region is unchanged.
ReallocMovesPayload ==
    Running =>
        \A ptr \in DOMAIN live, size \in ReqSizes \ {0}, cap \in Caps :
            ReallocResultOf(realloc(Env(cap), ptr, size), ptr, size,
                            get_payload_size(Machine, payload_to_header(ptr)))

\* C10: realloc(ptr, 0) returns null and leaves the state that free(ptr)
\* leaves, for ptr live or null; realloc(NULL, n) with n > 0 returns what
\* malloc(n) returns and leaves the state that malloc(n) leaves.
ReallocDegenerateCases ==
    Running =>
        /\ \A ptr \in DOMAIN live \cup {NULL}, cap \in Caps :
              /\ realloc(Env(cap), ptr, 0).rv = NULL
              /\ SameOutcome(realloc(Env(cap), ptr, 0),
                             Ret(free(Env(cap), ptr), NULL))
        /\ \A n \in ReqSizes \ {0}, cap \in Caps :
              SameOutcome(realloc(Env(cap), NULL, n), malloc(Env(cap), n))

\* C10, its case: a state with a live allocation, where realloc(ptr, 0)
\* changes the heap and realloc(NULL, n) hands out a block
ReallocDegenerateHappens ==
    /\ Running /\ Initialised
    /\ \E ptr \in DOMAIN live : realloc(Env(mem_brk), ptr, 0).mem # mem
    /\ \E n \in PlainSizes : realloc(Env(MaxHeap), NULL, n).rv # NULL

---------------------------------------------------------------------------
(* calloc *)

\* calloc's arguments in the claim: those of the client, and products
\* within 23 of the largest word value
CallocClaimArgs ==
    CallocArgs \cup {<<1, WordMod - 1>>, <<7, (WordMod - 1) \div 7>>,
                     <<1, WordMod - 16>>, <<1, WordMod - 24>>}

\* the n bytes at address p of machine h are zero
ZeroBytes(h, p, n) ==
    /\ \A a \in Span(p, n) : InArena(h, a)
    /\ \A k \in 0 .. (n \div wsize) - 1 : Load(h, p + wsize * k) = 0
    /\ n % wsize # 0 =>
          LowBytes(Load(h, p + wsize * (n \div wsize)), n % wsize) = 0

\* what calloc(elements, size) owes its caller when it ended in h
CallocResultOf(h, elements, size) ==
    IF elements = 0 \/ elements * size >= WordMod
    THEN h.fault = "none" /\ h.rv = NULL /\ Untouched(h) /\ h.ncalls = 0
    ELSE /\ h.fault = "none"
         /\ h.rv # NULL =>
               /\ InArena(h, payload_to_header(h.rv))
               /\ get_payload_size(h, payload_to_header(h.rv))
                    >= elements * size
               /\ ZeroBytes(h, h.rv, elements * size)

\* C11: calloc returns null and changes nothing when elements = 0 or the
\* product exceeds the word; for every other pair, products within 23 of
\* the largest word value included, it returns null or a region of at
\* least elements * size bytes inside its block, all zero.
CallocZeroedOrNull ==
    (Running /\ Initialised) =>
        \A args \in CallocClaimArgs, cap \in Caps :
            CallocResultOf(calloc(Env(cap), args[1], args[2]),
                           args[1], args[2])

---------------------------------------------------------------------------
(* malloc(0) *)

\* C12, as the specification states it: in every state, the one before the
\* first use included, malloc(0) returns null, leaves the allocator state
\* as it was and does not call the growth primitive.
MallocZeroNoEffect ==
    Running =>
        \A cap \in Caps :
            /\ malloc(Env(cap), 0).fault = "none"
            /\ malloc(Env(cap), 0).rv = NULL
            /\ Untouched(malloc(Env(cap), 0))
            /\ malloc(Env(cap), 0).ncalls = 0

\* C12, amended: malloc(0) returns null; once heap_start is set it leaves
\* the allocator state as it was and does not call the growth primitive;
\* before that it runs mm_init and leaves the state mm_init leaves.
MallocZeroAfterLazyInit ==
    Running =>
        \A cap \in Caps :
            /\ malloc(Env(cap), 0).fault = "none"
            /\ malloc(Env(cap), 0).rv = NULL
            /\ IF heap_start # NULL
               THEN /\ Untouched(malloc(Env(cap), 0))
                    /\ malloc(Env(cap), 0).ncalls = 0
               ELSE SameOutcome(malloc(Env(cap), 0),
                                Ret(mm_init(Env(cap)), NULL))

\* C12, its case: malloc(0) on an initialised heap that holds an allocation
MallocZeroHappens ==
    /\ Running /\ Initialised /\ DOMAIN live # {}
    /\ malloc(Env(MaxHeap), 0).rv = NULL

---------------------------------------------------------------------------
(* malloc followed by free *)

\* the entries of a free list of machine h, followed through the next links
RECURSIVE ListIn(_, _, _)
ListIn(h, cur, fuel) ==
    IF cur = NULL \/ fuel = 0 \/ ~InArena(h, NextField(cur)) THEN <<>>
    ELSE <<cur>> \o ListIn(h, Load(h, NextField(cur)), fuel - 1)

BucketIn(h, idx) == ListIn(h, h.seglist[idx], h.brk \div wsize + 1)
MiniListIn(h) == ListIn(h, h.mini_root, h.brk \div wsize + 1)

\* machine h has the blocks of the current heap, header for header
SameBlocks(h) ==
    /\ Blocks(h) = Walk
    /\ \A i \in 1 .. Len(Walk) : Load(h, Walk[i]) = Load(Machine, Walk[i])

\* the free lists of machine h hold the entries of the current lists, each
\* once
SameListEntries(h) ==
    /\ Elems(MiniListIn(h)) = Elems(MiniList)
    /\ Len(MiniListIn(h)) = Len(MiniList)
    /\ \A idx \in 0 .. BUCKET_COUNT - 1 :
          /\ Elems(BucketIn(h, idx)) = Elems(Bucket(idx))
          /\ Len(BucketIn(h, idx)) = Len(Bucket(idx))

\* the free lists of machine h are the current lists, entry for entry
SameLists(h) ==
    /\ MiniListIn(h) = MiniList
    /\ \A idx \in 0 .. BUCKET_COUNT - 1 : BucketIn(h, idx) = Bucket(idx)

\* the state after malloc ended in h and its result was released at once
Released(h) == free(h, h.rv)

\* h is the outcome of a malloc that returned a block
Served(h) == h.fault = "none" /\ h.rv # NULL

\* the heap after the release is the current heap: arena size, blocks and
\* their flags, and the entries of every free list
RoundTrip(h) ==
    /\ Released(h).fault = "none"
    /\ Released(h).brk = mem_brk
    /\ SameBlocks(Released(h))
    /\ SameListEntries(Released(h))

Again(h, n) == malloc(Released(h), n)

\* the second malloc(n) returns the address the first returned
ReturnsAgain(h, n) == Again(h, n).fault = "none" /\ Again(h, n).rv = h.rv

\* C14: in every state and for every n > 0, when p = malloc(n) succeeds,
\* free(p) followed at once by malloc(n) returns p again.
MallocFreeMallocSame ==
    Running =>
        \A n \in ReqSizes \ {0}, cap \in Caps :
            Served(malloc(Env(cap), n))
                => ReturnsAgain(malloc(Env(cap), n), n)

---------------------------------------------------------------------------
(* Growth only without a fit *)

\* the adjusted size malloc computes for a request of n bytes (line 677)
Adjusted(n) == round_up(UAdd(n, wsize), dsize)

\* some free block of machine h can hold a block of asize bytes: an entry
\* of the mini list for a 16-byte block, or an entry of a bucket
FitIn(h, asize) ==
    \/ asize = MINI_BLOCK_SIZE /\ MiniListIn(h) # <<>>
    \/ \E idx \in 0 .. BUCKET_COUNT - 1 :
          \E i \in 1 .. Len(BucketIn(h, idx)) :
              get_size(h, BucketIn(h, idx)[i]) >= asize

\* malloc ended in h with a block, the arena as large as in h0 and the
\* growth primitive not called since h0
ServedInPlace(h, h0) ==
    /\ Served(h)
    /\ h.brk = h0.brk
    /\ h.ncalls = h0.ncalls

\* malloc(n1) then malloc(n2) on machine h need no growth when the free
\* block of h at address block can hold both
PairInPlace(h, block, n1, n2) ==
    (h.fault = "none" /\ UAdd(Adjusted(n1), Adjusted(n2)) <= get_size(h, block))
        => /\ ServedInPlace(malloc(h, n1), h)
           /\ ServedInPlace(malloc(malloc(h, n1), n2), h)

\* C15: malloc calls the growth primitive only when no free block can hold
\* the request: with a fitting entry in the mini list (16-byte request) or
\* in a bucket it returns a block and the arena keeps its size.  After
\* malloc(a) is released, two requests whose adjusted sizes sum to at most
\* the released block's size are served without growth.
GrowthOnlyWithoutFit ==
    (Running /\ Initialised) =>
        /\ \A n \in ReqSizes \ {0}, cap \in Caps :
              FitIn(Machine, Adjusted(n))
                  => ServedInPlace(malloc(Env(cap), n), Env(cap))
        /\ \A a \in PlainSizes, n1 \in {8, 24}, n2 \in {8, 24} :
              Served(malloc(Env(MaxHeap), a))
                  => PairInPlace(Released(malloc(Env(MaxHeap), a)),
                                 Released(malloc(Env(MaxHeap), a)).rv, n1, n2)

---------------------------------------------------------------------------
(* The loop p = malloc(n); free(p) *)

\* one iteration of the loop on machine h
Iteration(h, n) == Released(malloc(h, n))

\* an iteration on machine h completes, does not call the growth primitive
\* and leaves the arena as large as it was
Steady(h, n) ==
    /\ Iteration(h, n).fault = "none"
    /\ Iteration(h, n).ncalls = h.ncalls
    /\ Iteration(h, n).brk = h.brk

\* once the first iteration has ended in h, the second and the third are
\* steady
SteadyAfter(h, n) ==
    h.fault = "none" => Steady(h, n) /\ Steady(Iteration(h, n), n)

\* C16: from every reachable state, in the loop p = malloc(n); free(p) with
\* a fixed n > 0 whose first malloc returns a block, only the first
\* iteration may grow the arena: every later iteration leaves the arena
\* size as it is and does not call the growth primitive.
LoopGrowsOnce ==
    Running =>
        \A n \in ReqSizes \ {0}, cap \in Caps :
            Served(malloc(Env(cap), n))
                => SteadyAfter(Iteration(Env(cap), n), n)

---------------------------------------------------------------------------
(* The sentinels *)

\* a word that encodes size 0 with the alloc flag
IsSentinel(w) == extract_size(w) = 0 /\ extract_alloc(w)

\* the last word of the arena
LastWord == mem[mem_brk \div wsize - 1]

\* C17, as the specification states it: after a successful initialisation
\* and every later operation the arena starts with two sentinel words, the
\* header of the first block is the third word, and the last word is an
\* epilogue of size 0 with the alloc flag.
TwoLeadingSentinels ==
    (fault = "none" /\ Initialised) =>
        /\ IsSentinel(mem[0])
        /\ IsSentinel(mem[1])
        /\ heap_start = mem_heap_lo + 2 * wsize
        /\ IsSentinel(LastWord)

\* C17, amended: the arena starts with one sentinel word, the header of the
\* first block is the second word, and the last word is an epilogue of size
\* 0 with the alloc flag.
OneLeadingSentinel ==
    (fault = "none" /\ Initialised) =>
        /\ IsSentinel(mem[0])
        /\ heap_start = mem_heap_lo + wsize
        /\ IsSentinel(LastWord)

\* C17, its case: an initialised heap that has grown since its
\* initialisation and holds an allocation
SentinelsAfterGrowth ==
    /\ fault = "none" /\ Initialised
    /\ mem_brk > 2 * wsize + chunksize
    /\ DOMAIN live # {}

---------------------------------------------------------------------------
(* find_fit on heaps with several free blocks in one bucket.  The heaps are *)
(* those a client reaches that allocates blocks alternately of the sizes    *)
(* below and of 8 bytes and then releases the former, first to last: the    *)
(* free blocks lie apart, each followed by an allocated 16-byte block, and  *)
(* each bucket lists its blocks last released first.  The heap may end on   *)
(* one more free block, released after the others.                          *)

\* block sizes of the free blocks: buckets 1, 1 and 2
FitSizes == {48, 64, 80}
\* the requests whose adjusted sizes are the sizes above
FitRequests == {40, 56, 72}

\* the sequences of at most MaxEntries sizes
FitLists == UNION {[1 .. k -> FitSizes] : k \in 0 .. MaxEntries}

RECURSIVE Sum(_)
Sum(s) == IF s = <<>> THEN 0 ELSE Head(s) + Sum(Tail(s))

\* arena size of the heap with free blocks of the given sizes
LaidSize(sizes) ==
    2 * wsize + Sum(sizes) + MINI_BLOCK_SIZE * Len(sizes)

\* the arena with its prologue word and nothing else
Bare(n) ==
    [mem |-> [i \in 0 .. n \div wsize - 1 |->
                 IF i = 0 THEN pack(0, FALSE, TRUE, TRUE) ELSE POISON],
     brk |-> n, heap_start |-> mem_heap_lo + wsize, mini_root |-> NULL,
     seglist |-> [idx \in 0 .. BUCKET_COUNT - 1 |-> NULL],
     fault |-> "none", rv |-> NULL, cap |-> n, ncalls |-> 0, nfail |-> 0]

\* the allocated 16-byte block at address block, behind a free block
Separator(h, block) ==
    Store(write_block(h, block, MINI_BLOCK_SIZE, FALSE, FALSE, TRUE),
          header_to_payload(block), Token(0))

\* the free block of the given size at address block, released
FreeBlock(h, block, size) ==
    insertVagueBlock(
        write_block(h, block, size, block # h.heap_start, TRUE, FALSE), block)

\* the heap from address block on: free blocks of the given sizes, each
\* followed by an allocated 16-byte block, then the epilogue
RECURSIVE Laid(_, _, _)
Laid(h, sizes, block) ==
    IF sizes = <<>>
    THEN write_epilogue(h, block, block # h.heap_start, TRUE)
    ELSE Laid(Separator(FreeBlock(h, block, Head(sizes)),
                        block + Head(sizes)),
              Tail(sizes), block + Head(sizes) + MINI_BLOCK_SIZE)

\* the payload addresses of the allocated blocks of that heap
RECURSIVE Separators(_, _)
Separators(sizes, block) ==
    IF sizes = <<>> THEN {}
    ELSE {block + Head(sizes) + wsize}
             \cup Separators(Tail(sizes),
                             block + Head(sizes) + MINI_BLOCK_SIZE)

InitFitOn(h, sizes) ==
    /\ h.fault = "none"
    /\ mem = h.mem
    /\ mem_brk = h.brk
    /\ heap_start = h.heap_start
    /\ mini_root = h.mini_root
    /\ seglist = h.seglist
    /\ fault = "none"
    /\ live = [p \in Separators(sizes, h.heap_start) |-> wsize]
    /\ calls = 0

\* the sizes of a free block that ends the heap, released last; 0 for none
FitTails == {0, MINI_BLOCK_SIZE, 48}

\* the heap h ending on a free block of the given size at address block
Ended(h, block, size) ==
    IF size = 0 THEN h
    ELSE insertVagueBlock(
             write_epilogue(
                 write_block(h, block, size, block # h.heap_start, TRUE,
                             FALSE),
                 block + size, size = MINI_BLOCK_SIZE, FALSE),
             block)

InitFit ==
    \E sizes \in FitLists, tail \in FitTails :
        InitFitOn(Ended(Laid(Bare(LaidSize(sizes) + tail), sizes,
                             mem_heap_lo + wsize),
                        mem_heap_lo + LaidSize(sizes) - wsize, tail),
                  sizes)

\* one malloc on such a heap, the arena not allowed to grow
FitCall ==
    /\ fault = "none" /\ calls = 0
    /\ \E n \in FitRequests :
         HeedlessMallocReturn(malloc(Env(mem_brk), n), n)

NextFit == FitCall

SpecFit == InitFit /\ [][NextFit]_vars

\* the positions of the list s whose block holds asize bytes
Fits(s, asize) ==
    {k \in 1 .. Len(s) : asize <= get_size(Machine, s[k])}

First(ks) == CHOOSE k \in ks : \A m \in ks : k <= m

\* the positions examined in s: the first fit and the further entries
Window(s, asize, further) ==
    {k \in Fits(s, asize) : k <= First(Fits(s, asize)) + further}

\* the position in ks of the smallest block, the earliest of several
Closest(s, ks) ==
    CHOOSE k \in ks : \A m \in ks :
        \/ get_size(Machine, s[k]) < get_size(Machine, s[m])
        \/ get_size(Machine, s[k]) = get_size(Machine, s[m]) /\ k <= m

\* the buckets from idx on that hold a block of asize bytes
FitBuckets(asize, idx) ==
    {i \in idx .. BUCKET_COUNT - 1 : Fits(Bucket(i), asize) # {}}

\* the block of the list s that a search examining the given number of
\* further entries returns
BestIn(s, asize, further) == s[Closest(s, Window(s, asize, further))]

\* the block such a search returns from the buckets idx onwards
BestFit(asize, idx, further) ==
    IF FitBuckets(asize, idx) = {} THEN NULL
    ELSE BestIn(Bucket(First(FitBuckets(asize, idx))), asize, further)

FindFitReturns(asize, further) ==
    find_fit(Machine, asize, home_address(asize)).rv
        = BestFit(asize, home_address(asize), further)

\* C18: find_fit returns, from the first bucket that holds a fit, the block
\* of smallest leftover among the first fit and the 3 list entries after it
\* (the earliest of several), and no block of a later bucket
FindFitThreeFurther ==
    fault = "none" =>
        \A n \in FitRequests : FindFitReturns(Adjusted(n), 3)

---------------------------------------------------------------------------
(* free of a live block *)

\* every free list of machine h, one after the other
RECURSIVE BucketsFrom(_, _)
BucketsFrom(h, idx) ==
    IF idx = BUCKET_COUNT THEN <<>>
    ELSE BucketIn(h, idx) \o BucketsFrom(h, idx + 1)

AllLists(h) == MiniListIn(h) \o BucketsFrom(h, 0)

\* the free structure of machine h in which the free block belongs
HomeIn(h, block) ==
    IF isMiniBlock(h, block) THEN MiniListIn(h)
    ELSE BucketIn(h, home_address(get_size(h, block)))

\* the position of the block in the walk over the current heap
At(block) == CHOOSE i \in 1 .. Len(Walk) : Walk[i] = block

PrevFree(block) == At(block) > 1 /\ IsFree(Walk[At(block) - 1])
NextFree(block) == IsFree(Walk[At(block) + 1])

\* the block and its free physical neighbours
Merged(block) ==
    {block} \cup (IF PrevFree(block) THEN {Walk[At(block) - 1]} ELSE {})
            \cup (IF NextFree(block) THEN {Walk[At(block) + 1]} ELSE {})

First1(bs) == CHOOSE b \in bs : \A c \in bs : b <= c

\* address and size of the block that replaces them
MergedAt(block) == First1(Merged(block))

RECURSIVE SizeSum(_)
SizeSum(bs) ==
    IF bs = {} THEN 0
    ELSE get_size(Machine, First1(bs)) + SizeSum(bs \ {First1(bs)})

Kept(block, b) == b \notin Merged(block) \/ b = MergedAt(block)

\* the walk over the heap with the merged blocks replaced by one
WalkMerged(block) == SelectSeq(Walk, LAMBDA b : Kept(block, b))

\* the block behind the merged block
Follower(block) == Walk[At(block) + (IF NextFree(block) THEN 2 ELSE 1)]

Flagless(w) == pack(extract_size(w), FALSE, FALSE, extract_alloc(w))

\* the words of the block behind its header, as indices into mem
PayloadWords(block) ==
    {WordIx(block) + k : k \in 1 .. get_size(Machine, block) \div wsize - 1}

\* machine h is the current heap after the block was released: one free
\* block in place of the block and its free neighbours, the other blocks
\* and the other regions of the client as they are
ReleasedIn(h, block) ==
    /\ h.fault = "none"
    /\ h.brk = mem_brk
    /\ Blocks(h) = WalkMerged(block)
    /\ ~get_alloc(h, MergedAt(block))
    /\ get_size(h, MergedAt(block)) = SizeSum(Merged(block))
    /\ MergedAt(block)
         = (IF PrevFree(block) THEN Walk[At(block) - 1] ELSE block)
    /\ Count(AllLists(h), MergedAt(block)) = 1
    /\ Count(HomeIn(h, MergedAt(block)), MergedAt(block)) = 1
    /\ \A b \in Merged(block) \ {MergedAt(block)} :
          Count(AllLists(h), b) = 0
    /\ \A b \in Elems(Walk) \ Merged(block) :
          /\ Flagless(Load(h, b)) = Flagless(Load(Machine, b))
          /\ b # Follower(block) => Load(h, b) = Load(Machine, b)
          /\ Count(AllLists(h), b) = Count(AllLists(Machine), b)
    /\ \A b \in Elems(HeapBlocks) \ Merged(block) :
          ~IsFree(b) => \A i \in PayloadWords(b) : h.mem[i] = mem[i]

\* the payloads the client holds that are allocated blocks of the heap
LiveBlocks ==
    {p \in DOMAIN live : /\ payload_to_header(p) \in Elems(HeapBlocks)
                         /\ ~IsFree(payload_to_header(p))}

\* C19: free(p) of a live block leaves one free block in place of the block
\* and its free neighbours, of their sizes' sum, at the predecessor's address
\* if that was free and at the block's otherwise; the merged neighbours are
\* in no free list; the other blocks keep size, allocation state and
\* payload, and only the block behind the merged one may change its flags
FreeMergesNeighbours ==
    (fault = "none" /\ Initialised /\ Tiled(Machine)) =>
        \A p \in LiveBlocks :
            ReleasedIn(free(Env(mem_brk), p), payload_to_header(p))

---------------------------------------------------------------------------
(* malloc from a free block: the split *)

\* the heap in which malloc has chosen its block, h.rv, by search or growth
Chosen(h, n) == malloc_extend(malloc_search(h, Adjusted(n)), Adjusted(n))

\* the walk bs with block b entered behind block a
EnteredBehind(bs, a, b) ==
    LET i == CHOOSE k \in 1 .. Len(bs) : bs[k] = a
    IN  SubSeq(bs, 1, i) \o <<b>> \o SubSeq(bs, i + 1, Len(bs))

\* machine h holds the allocated block of asize bytes and behind it the
\* free remainder of rest bytes, listed once, where it belongs
SplitIn(h, c, block, asize, rest) ==
    /\ get_alloc(h, block) /\ get_size(h, block) = asize
    /\ ~get_alloc(h, block + asize) /\ get_size(h, block + asize) = rest
    /\ Blocks(h) = EnteredBehind(Blocks(c), block, block + asize)
    /\ Count(AllLists(h), block + asize) = 1
    /\ IF rest = MINI_BLOCK_SIZE
       THEN Count(MiniListIn(h), block + asize) = 1
       ELSE Count(BucketIn(h, home_address(rest)), block + asize) = 1

\* machine h holds the whole block allocated
WholeIn(h, c, block, size) ==
    /\ get_alloc(h, block) /\ get_size(h, block) = size
    /\ Blocks(h) = Blocks(c)

\* no block of machine h is smaller than 16 bytes
NoneBelowMinimum(h) ==
    \A i \in 1 .. Len(Blocks(h)) - 1 :
        get_size(h, Blocks(h)[i]) >= min_block_size

\* malloc, ending in h, allocated from the block chosen in c
PlacedIn(h, c, block, asize, size) ==
    /\ h.fault = "none" /\ h.rv = header_to_payload(block)
    /\ size >= asize
    /\ Count(AllLists(h), block) = 0
    /\ IF size - asize >= min_block_size
       THEN SplitIn(h, c, block, asize, size - asize)
       ELSE WholeIn(h, c, block, size)
    /\ NoneBelowMinimum(h)

Placed(h, c, asize) ==
    (c.fault = "none" /\ c.rv # NULL) =>
        PlacedIn(h, c, c.rv, asize, get_size(c, c.rv))

\* C20: malloc of adjusted size a from a free block of size s leaves, if
\* s - a >= 16, an allocated block of a bytes at the block's address and
\* behind it a free block of s - a bytes, in the mini list if s - a = 16 and
\* in bucket home_address(s - a) otherwise; if s - a < 16 the whole block is
\* allocated; no block below 16 bytes comes to be
SplitConservesSize ==
    (Running /\ Initialised) =>
        \A n \in ReqSizes \ {0}, cap \in Caps :
            Placed(malloc(Env(cap), n), Chosen(Env(cap), n), Adjusted(n))

---------------------------------------------------------------------------
(* malloc growing the heap *)

\* the size malloc asks extend_heap for, as extend_heap rounds it
GrowthSize(asize) == round_up(max(asize, chunksize), dsize)

\* the growth primitive grants incr bytes within the limit cap
Granted(incr, cap) == incr < WordMod \div 2 /\ mem_brk + incr <= cap

\* the epilogue of the current heap
Epilogue == mem_heap_lo + mem_brk - wsize

\* the last block of the current heap is free
LastFree == HeapBlocks # <<>> /\ IsFree(HeapBlocks[Len(HeapBlocks)])

\* where the block of the new region starts, merged or not
GrownAt == IF LastFree THEN HeapBlocks[Len(HeapBlocks)] ELSE Epilogue

\* the size of that block
GrownSize(incr) ==
    incr + (IF LastFree THEN get_size(Machine, GrownAt) ELSE 0)

\* machine g is the current heap grown by incr bytes: one free block from
\* the old epilogue on, merged with a free last block, with the flags that
\* stood at its address, listed once; behind it the new epilogue
GrownIn(g, asize, incr) ==
    /\ g.fault = "none" /\ g.ncalls = 1
    /\ g.brk = mem_brk + incr
    /\ g.rv = GrownAt
    /\ ~get_alloc(g, GrownAt)
    /\ get_size(g, GrownAt) = GrownSize(incr)
    /\ get_size(g, GrownAt) >= asize
    /\ get_palloc(g, GrownAt) = get_palloc(Machine, GrownAt)
    /\ get_mpalloc(g, GrownAt) = get_mpalloc(Machine, GrownAt)
    /\ isEpilogue(g, mem_heap_lo + g.brk - wsize)
    /\ ~get_palloc(g, mem_heap_lo + g.brk - wsize)
    /\ Blocks(g) = SubSeq(Walk, 1, Len(Walk) - (IF LastFree THEN 2 ELSE 1))
                       \o <<GrownAt, mem_heap_lo + g.brk - wsize>>
    /\ Count(AllLists(g), GrownAt) = 1
    /\ Count(HomeIn(g, GrownAt), GrownAt) = 1

\* g is the outcome of malloc's growth for asize under the limit cap
GrowthIn(g, asize, cap) ==
    IF Granted(GrowthSize(asize), cap)
    THEN GrownIn(g, asize, GrowthSize(asize))
    ELSE g.fault = "none" /\ g.rv = NULL /\ g.ncalls = 1

\* malloc's growth after the search ended in s
GrowthAfter(s, asize, cap) ==
    (s.fault = "none" /\ s.rv = NULL) =>
        GrowthIn(malloc_extend(s, asize), asize, cap)

\* C21: when malloc grows the heap for adjusted size a it asks for
\* max(a, 512) bytes rounded up to 16; the new region is a free block at the
\* old epilogue's address with the old epilogue's flags, merged with a free
\* last block, listed, of size >= a, and a new epilogue ends the arena
GrowthFormatsRegion ==
    (fault = "none" /\ Initialised /\ Tiled(Machine)) =>
        \A n \in ReqSizes \ {0}, cap \in Caps :
            GrowthAfter(malloc_search(Env(cap), Adjusted(n)), Adjusted(n), cap)

\* malloc grows a heap whose last block is a free 16-byte block
GrowthMergesLastBlock ==
    /\ fault = "none" /\ Initialised /\ Tiled(Machine)
    /\ LastFree /\ IsMini(GrownAt)
    /\ \E n \in PlainSizes :
          /\ malloc_search(Env(MaxHeap), Adjusted(n)).rv = NULL
          /\ Granted(GrowthSize(Adjusted(n)), MaxHeap)

---------------------------------------------------------------------------
(* the steps of malloc *)

\* the entries of the free lists of machine h that are marked allocated
AllocatedLinked(h) == {b \in Elems(AllLists(h)) : get_alloc(h, b)}

\* the heap in which malloc has marked its block allocated
Marked(h, n) == malloc_mark(Chosen(h, n))

\* the heap in which split_block has taken the block out of its list
Unlinked(h, n) == split_block_unlinked(Marked(h, n), Chosen(h, n).rv)

\* malloc chooses a block in machine h
Chooses(h, n) == Chosen(h, n).fault = "none" /\ Chosen(h, n).rv # NULL

\* no list holds an allocated block after the search, after the growth,
\* once the block is out of its list and when malloc returns
CleanAround(h, n) ==
    /\ AllocatedLinked(malloc_search(h, Adjusted(n))) = {}
    /\ AllocatedLinked(Chosen(h, n)) = {}
    /\ Chooses(h, n) => AllocatedLinked(Unlinked(h, n)) = {}
    /\ AllocatedLinked(malloc(h, n)) = {}

\* the chosen block is marked allocated while it is in its list
MarkedWhileLinked(h, n) ==
    Chooses(h, n) => AllocatedLinked(Marked(h, n)) = {Chosen(h, n).rv}

\* C22: at every step of malloc no block is marked allocated while it is in
\* a bucket or in the mini list
MallocUnlinksBeforeMarking ==
    (Running /\ Initialised) =>
        \A n \in ReqSizes \ {0}, cap \in Caps :
            /\ CleanAround(Env(cap), n)
            /\ Chooses(Env(cap), n) => AllocatedLinked(Marked(Env(cap), n)) = {}

\* C22, amended: malloc marks the chosen block allocated while it is in its
\* list and split_block takes it out next; at the steps before and after
\* no list holds an allocated block
MallocMarksBeforeUnlinking ==
    (Running /\ Initialised) =>
        \A n \in ReqSizes \ {0}, cap \in Caps :
            CleanAround(Env(cap), n) /\ MarkedWhileLinked(Env(cap), n)

\* malloc chooses a block of the mini list and one of a bucket
MallocMarksListedBlock ==
    /\ Running /\ Initialised /\ mini_root # NULL
    /\ Chooses(Env(mem_brk), 8) /\ Chooses(Env(mem_brk), 24)

---------------------------------------------------------------------------
(* the shape of the free lists *)

\* the list s, which starts at head, has no entry twice and ends in NULL
Acyclic(s, head) ==
    /\ s = <<>> => head = NULL
    /\ Cardinality(Elems(s)) = Len(s)
    /\ Ends(s)

\* the backward links of the bucket list s mirror its forward links
BackLinked(s) ==
    /\ s # <<>> => Load(Machine, PrevField(s[1])) = NULL
    /\ \A i \in 1 .. Len(s) - 1 : Load(Machine, PrevField(s[i + 1])) = s[i]

\* every scan of the lists ends: find_fit for every size, and the scan of
\* remove_mini_block, which finds every free 16-byte block of the heap
ScansEnd ==
    /\ \A n \in PlainSizes :
          find_fit(Machine, Adjusted(n), home_address(Adjusted(n))).fault
              = "none"
    /\ \A i \in 1 .. Len(HeapBlocks) :
          (IsFree(HeapBlocks[i]) /\ IsMini(HeapBlocks[i]))
              => Count(MiniList, HeapBlocks[i]) = 1

\* C23: at the end of every public operation each bucket list and the mini
\* list is acyclic and ends in NULL, each bucket head has a NULL backward
\* link, the backward link of an entry's successor is the entry, and so
\* every scan of a list ends and remove_mini_block finds its block
FreeListsWellFormed ==
    fault = "none" =>
        /\ Acyclic(MiniList, mini_root)
        /\ \A idx \in 0 .. BUCKET_COUNT - 1 :
              Acyclic(Bucket(idx), seglist[idx]) /\ BackLinked(Bucket(idx))
        /\ ScansEnd

---------------------------------------------------------------------------
(* malloc when the lazy initialisation fails *)

\* the lazy mm_init of a malloc under the limit cap fails
LazyInitFails(cap) == heap_start = NULL /\ mm_init(Env(cap)).rv = 0

\* the predecessor flags of every block of machine h are accurate
FlagsIn(h, bs) ==
    \A i \in 1 .. Len(bs) :
        /\ get_palloc(h, bs[i]) = (IF i = 1 THEN TRUE
                                   ELSE get_alloc(h, bs[i - 1]))
        /\ get_mpalloc(h, bs[i]) = (IF i = 1 THEN FALSE
                                    ELSE isMiniBlock(h, bs[i - 1]))

\* machine h is a heap with its sentinels, tiled by its blocks, with
\* accurate flags
SoundIn(h) ==
    /\ IsSentinel(h.mem[0])
    /\ Tiled(h)
    /\ FlagsIn(h, Blocks(h))

\* malloc, ending in h, returned an allocated block of n bytes or more
ValidBlockIn(h, n) ==
    /\ Served(h)
    /\ h.rv % dsize = 0
    /\ payload_to_header(h.rv) \in Elems(Blocks(h))
    /\ get_alloc(h, payload_to_header(h.rv))
    /\ get_payload_size(h, payload_to_header(h.rv)) >= n

\* the heap was left by a lazy initialisation whose first extension failed
AfterFailedExtension == heap_start # NULL /\ mem_brk = 2 * wsize

\* C24: a malloc(n), n > 0, whose lazy initialisation fails for lack of
\* memory returns NULL without an access outside the arena, and once memory
\* is granted a later malloc returns a valid block on a sound heap
LazyInitFailureSafe ==
    fault = "none" =>
        /\ \A n \in ReqSizes \ {0}, cap \in Caps :
              LazyInitFails(cap) =>
                  /\ malloc(Env(cap), n).fault = "none"
                  /\ malloc(Env(cap), n).rv = NULL
        /\ (AfterFailedExtension \/ heap_start = NULL) =>
              \A n \in PlainSizes :
                  /\ ValidBlockIn(malloc(Env(MaxHeap), n), n)
                  /\ SoundIn(malloc(Env(MaxHeap), n))

=============================================================================
